---- MODULE Spec2Model ----
(***************************************************************************)
(* Model of the cyclonedx-gomod GitHub action (src/index.js).             *)
(*                                                                         *)
(* Strings are modelled as sequences of tokens (a token is a TLA+ string   *)
(* of one or more characters) so that toLowerCase, replace(/^v/, ''),      *)
(* endsWith and the template literal of buildDownloadUrl act on text.      *)
(* JavaScript null is the empty sequence, which no release tag equals.     *)
(***************************************************************************)
EXTENDS Integers, Sequences, FiniteSets, TLC

VARIABLES
    actionInputs,     \* what core.getInput returns for each input of the step
    input,            \* the input record read at module load (lines 29-41)
    host,             \* os.platform(), os.arch(), process.env.HOME
    pc,               \* the await at which run() is suspended
    versionToInstall, \* let versionToInstall (line 114)
    releases,         \* tag_name of every release of the list response (line 84)
    downloadUrl,      \* const downloadUrl of install (line 91)
    archivePath,      \* const archivePath of install (line 94)
    installDir,       \* let installDir of install (line 97)
    binaryPath,       \* const binaryPath of run (line 130)
    args,             \* let args of run (line 133)
    exitCode,         \* how the binary ended: "none", "zero" or "nonzero"
    trace,            \* calls made by the current run, in order
    failures,         \* messages handed to core.setFailed by the current run
    runNo,            \* number of the current run on this host
    extractDest,      \* the directory the extraction of this run writes into
    extracted         \* the directories earlier runs on this host extracted into

vars == <<actionInputs, input, host, pc, versionToInstall, releases,
          downloadUrl, archivePath, installDir, binaryPath, args, exitCode,
          trace, failures, runNo, extractDest, extracted>>

-----------------------------------------------------------------------------
(* Bounds of the model *)

MaxTags == 3
MaxRuns == 2

-----------------------------------------------------------------------------
(* Text helpers *)

null == <<>>

Digits == <<"0", "1", "2", "3", "4", "5", "6", "7", "8", "9">>

IsDigit(c) == \E n \in 1..10 : Digits[n] = c

DigitVal(c) == (CHOOSE n \in 1..10 : Digits[n] = c) - 1

UpperCase == <<"L", "A", "T", "E", "S", "N", "W">>
LowerCase == <<"l", "a", "t", "e", "s", "n", "w">>

\* a comparison with 'latest' that keeps the letter case
toLowerCaseKept(s) == s

\* String.prototype.toLowerCase, character by character
toLowerCase(s) ==
    [i \in 1..Len(s) |->
        IF \E k \in 1..Len(UpperCase) : UpperCase[k] = s[i]
        THEN LowerCase[CHOOSE k \in 1..Len(UpperCase) : UpperCase[k] = s[i]]
        ELSE s[i]]

\* String.prototype.endsWith
endsWith(s, suffix) ==
    /\ Len(suffix) <= Len(s)
    /\ SubSeq(s, Len(s) - Len(suffix) + 1, Len(s)) = suffix

\* String.prototype.replace(/^v/, '')
StripV(s) == IF Len(s) > 0 /\ s[1] = "v" THEN Tail(s) ELSE s

latest == <<"l", "a", "t", "e", "s", "t">>

-----------------------------------------------------------------------------
(* The semver package, as far as index.js uses it *)

InvalidVersion ==
    [valid |-> FALSE, major |-> 0, minor |-> 0, patch |-> 0, pre |-> FALSE]

\* new SemVer(version): an optional leading "v", MAJOR.MINOR.PATCH, and an
\* optional prerelease part "-rc"
SemVer(s) ==
    LET t == IF Len(s) > 0 /\ s[1] = "v" THEN Tail(s) ELSE s
    IN  IF /\ Len(t) \in {5, 7}
           /\ IsDigit(t[1]) /\ t[2] = "." /\ IsDigit(t[3])
           /\ t[4] = "." /\ IsDigit(t[5])
           /\ (Len(t) = 7 => t[6] = "-" /\ t[7] = "rc")
        THEN [valid |-> TRUE, major |-> DigitVal(t[1]), minor |-> DigitVal(t[3]),
              patch |-> DigitVal(t[5]), pre |-> Len(t) = 7]
        ELSE InvalidVersion

MainVersion(v) == <<v.major, v.minor, v.patch>>

MainLess(a, b) ==
    \/ a[1] < b[1]
    \/ a[1] = b[1] /\ a[2] < b[2]
    \/ a[1] = b[1] /\ a[2] = b[2] /\ a[3] < b[3]

\* SemVer.compare: main version first, then a prerelease sorts before its release
compare(a, b) ==
    IF MainLess(MainVersion(a), MainVersion(b)) THEN -1
    ELSE IF MainLess(MainVersion(b), MainVersion(a)) THEN 1
    ELSE IF a.pre /\ ~b.pre THEN -1
    ELSE IF ~a.pre /\ b.pre THEN 1
    ELSE 0

\* semver.lt throws a TypeError when either side is no version (null included)
ltThrows(a, b) == ~SemVer(a).valid \/ ~SemVer(b).valid

lt(a, b) == compare(SemVer(a), SemVer(b)) = -1

InvalidRange == [valid |-> FALSE, op |-> "", v |-> InvalidVersion]

RangeOperators == {"^", "~", ">=", "<", "="}

\* new Range(range): "" and "*" match any release; an operator followed by a
\* version; a bare version is an exact match
Range(s) ==
    IF s = <<>> \/ s = <<"*">>
    THEN [valid |-> TRUE, op |-> "*", v |-> InvalidVersion]
    ELSE IF s[1] \in RangeOperators /\ SemVer(Tail(s)).valid
    THEN [valid |-> TRUE, op |-> s[1], v |-> SemVer(Tail(s))]
    ELSE IF SemVer(s).valid
    THEN [valid |-> TRUE, op |-> "=", v |-> SemVer(s)]
    ELSE InvalidRange

\* a validRange that accepts every string
validRangeAny(s) == TRUE

\* semver.validRange returns null for what does not parse as a range
validRange(s) == Range(s).valid

\* exclusive upper bound of a caret or tilde range
UpperBound(r) ==
    IF r.op = "~" THEN <<r.v.major, r.v.minor + 1, 0>>
    ELSE IF r.v.major > 0 THEN <<r.v.major + 1, 0, 0>>
    ELSE IF r.v.minor > 0 THEN <<0, r.v.minor + 1, 0>>
    ELSE <<0, 0, r.v.patch + 1>>

\* Range.test: a tag that is no version never matches; a prerelease matches
\* only a comparator that names a prerelease of the same MAJOR.MINOR.PATCH
test(r, tag) ==
    LET v == SemVer(tag)
    IN  /\ r.valid
        /\ v.valid
        /\ v.pre => (r.op # "*" /\ r.v.pre /\ MainVersion(v) = MainVersion(r.v))
        /\ CASE r.op = "*"  -> TRUE
             [] r.op = "="  -> compare(v, r.v) = 0
             [] r.op = ">=" -> compare(v, r.v) >= 0
             [] r.op = "<"  -> compare(v, r.v) < 0
             [] OTHER       -> /\ compare(v, r.v) >= 0
                               /\ MainLess(MainVersion(v), UpperBound(r))

RECURSIVE maxSatisfyingFrom(_, _, _)
maxSatisfyingFrom(versions, r, max) ==
    IF versions = <<>> THEN max
    ELSE LET v == Head(versions)
         IN  IF test(r, v) /\ (max = null \/ compare(SemVer(max), SemVer(v)) = -1)
             THEN maxSatisfyingFrom(Tail(versions), r, v)
             ELSE maxSatisfyingFrom(Tail(versions), r, max)

\* a maxSatisfying that keeps the last matching version of the list
maxSatisfyingLast(versions, range) ==
    LET matching == {i \in 1..Len(versions) : test(Range(range), versions[i])}
    IN  IF matching = {} THEN null
        ELSE versions[CHOOSE i \in matching : \A j \in matching : j <= i]

\* semver.maxSatisfying(versions, range): null when nothing matches
maxSatisfying(versions, range) == maxSatisfyingFrom(versions, Range(range), null)

-----------------------------------------------------------------------------
(* Program constants and pure functions of index.js *)

baseDownloadUrl == "https://github.com/CycloneDX/cyclonedx-gomod/releases/download"

minimumSupportedVersion == <<"v", "0", ".", "8", ".", "1">>

\* messages of the errors that reach the catch block of run
MissingDependencyError == "Unable to locate executable file: go"
NotFoundError == "Fetching latest release of cyclonedx-gomod failed: not found"
UnexpectedStatusError == "Unexpected response status"
InvalidRangeError == "version must be a valid version range"
NoMatchError == "Invalid Version: null"
UnsupportedVersionError == "cyclonedx-gomod versions below v0.8.1 are not supported"
DownloadError == "download failed"
ExtractionError == "extraction failed"
SubprocessError == "the process failed with a non-zero exit code"
ReadError == "the output file could not be read"

\* core.getInput(name) || fallback
OrDefault(raw, fallback) == IF raw = "" THEN fallback ELSE raw

\* a buildDownloadUrl that maps only 'ia32' to 'x86'
buildDownloadUrlIa32Only(version) ==
    LET isWindows == host.platform = "win32"
        fileExtension == IF isWindows THEN "zip" ELSE "tar.gz"
        platform == IF isWindows THEN "windows" ELSE host.platform
        architecture == IF host.arch = "ia32" THEN "x86" ELSE host.arch
    IN  <<baseDownloadUrl, "/v">> \o version \o <<"/cyclonedx-gomod_">> \o version
            \o <<"_", platform, "_", architecture, ".", fileExtension>>

buildDownloadUrl(version) ==
    LET isWindows == host.platform = "win32"
        fileExtension == IF isWindows THEN "zip" ELSE "tar.gz"
        platform == IF isWindows THEN "windows" ELSE host.platform
        architecture == IF host.arch = "ia32" \/ host.arch = "x32"
                        THEN "x86" ELSE host.arch
    IN  <<baseDownloadUrl, "/v">> \o version \o <<"/cyclonedx-gomod_">> \o version
            \o <<"_", platform, "_", architecture, ".", fileExtension>>

\* toolCache.downloadTool(url) without a destination: a new file below the
\* runner's temporary directory, named by a random UUID
downloadTool(url) == <<"tmp", "/", "uuid-", Digits[runNo + 1]>>

\* an extraction without a destination: toolCache makes a new directory
extractIntoNew(archive, dest) == archive \o <<"-extracted">>

\* toolCache.extractZip / extractTar with a destination extract into that
\* destination and return it
extractInto(archive, dest) == dest

\* path.join(installDir, 'cyclonedx-gomod')
joinBinary(dir) == dir \o <<"/", "cyclonedx-gomod">>

push(list, flag, tokens) == IF flag THEN list \o tokens ELSE list

\* an argument list that names the module even when it is empty
buildArgsModuleAlways(in) ==
    LET a0 == <<"-output", in.output, "-type", in.type>>
        a1 == push(a0, in.includeStdLib, <<"-std">>)
        a2 == push(a1, in.includeTest, <<"-test">>)
        a3 == push(a2, in.json, <<"-json">>)
        a4 == push(a3, TRUE, <<"-module", in.module>>)
        a5 == push(a4, in.omitSerialNumber, <<"-noserial">>)
        a6 == push(a5, in.omitVersionPrefix, <<"-novprefix">>)
        a7 == push(a6, in.reproducible, <<"-reproducible">>)
    IN  push(a7, in.resolveLicenses, <<"-licenses">>)

\* lines 133-157
buildArgs(in) ==
    LET a0 == <<"-output", in.output, "-type", in.type>>
        a1 == push(a0, in.includeStdLib, <<"-std">>)
        a2 == push(a1, in.includeTest, <<"-test">>)
        a3 == push(a2, in.json, <<"-json">>)
        a4 == push(a3, in.module # "", <<"-module", in.module>>)
        a5 == push(a4, in.omitSerialNumber, <<"-noserial">>)
        a6 == push(a5, in.omitVersionPrefix, <<"-novprefix">>)
        a7 == push(a6, in.reproducible, <<"-reproducible">>)
    IN  push(a7, in.resolveLicenses, <<"-licenses">>)

-----------------------------------------------------------------------------
(* The inputs the model draws from *)

V070 == <<"v", "0", ".", "7", ".", "0">>
V080 == <<"v", "0", ".", "8", ".", "0">>
V081 == <<"v", "0", ".", "8", ".", "1">>
V090 == <<"v", "0", ".", "9", ".", "0">>
RC100 == <<"1", ".", "0", ".", "0", "-", "rc">>

Tags == {V070, V080, V081, V090, RC100}

\* release lists: up to MaxTags distinct tags, in any order
Catalogs ==
    UNION {{c \in [1..n -> Tags] : \A i, j \in 1..n : c[i] = c[j] => i = j}
           : n \in 0..MaxTags}

LatestWords == {latest,
                <<"L", "A", "T", "E", "S", "T">>,
                <<"L", "a", "t", "e", "s", "T">>}

OtherWords == {<<"n", "e", "w", "e", "s", "t">>,
               <<"l", "a", "t", "e", "s">>}

RangeSpecifiers == {<<>>,
                    <<"^", "0", ".", "8", ".", "0">>,
                    <<"~", "0", ".", "8", ".", "0">>,
                    <<"0", ".", "8", ".", "1">>,
                    <<"<", "0", ".", "8", ".", "1">>,
                    <<"^", "1", ".", "0", ".", "0">>}

Specifiers == LatestWords \cup OtherWords \cup RangeSpecifiers

BooleanInputs == {"includeStdLib", "includeTest", "json", "omitSerialNumber",
                  "omitVersionPrefix", "reproducible", "resolveLicenses"}

\* the input record of lines 29-41, from the raw inputs of the step
ReadInput(raw) ==
    [includeStdLib     |-> raw.flags["includeStdLib"],
     includeTest       |-> raw.flags["includeTest"],
     json              |-> raw.flags["json"],
     module            |-> raw.module,
     omitSerialNumber  |-> raw.flags["omitSerialNumber"],
     omitVersionPrefix |-> raw.flags["omitVersionPrefix"],
     output            |-> OrDefault(raw.output, "-"),
     reproducible      |-> raw.flags["reproducible"],
     resolveLicenses   |-> raw.flags["resolveLicenses"],
     type              |-> OrDefault(raw.type, "application"),
     version           |-> raw.version]

RawOutputs == {"", "-", "bom.xml"}
RawTypes == {"", "library"}
Modules == {"", "foo"}

AllFlags == [BooleanInputs -> BOOLEAN]
AllOff == [f \in BooleanInputs |-> FALSE]
AllOn == [f \in BooleanInputs |-> TRUE]

\* raw inputs of a whole run: every specifier and output, the other options
\* all left out or all given
RunInputs ==
    {[version |-> v, output |-> o, type |-> "", module |-> mf[1], flags |-> mf[2]] :
        v \in Specifiers, o \in RawOutputs, mf \in {<<"", AllOff>>, <<"foo", AllOn>>}}

\* raw inputs of the argument list alone: every combination of the options
ArgInputs ==
    {[version |-> latest, output |-> o, type |-> t, module |-> m, flags |-> f] :
        o \in RawOutputs, t \in RawTypes, m \in Modules, f \in AllFlags}

Home == <<"/", "home", "/", "runner">>

RunHosts ==
    {[platform |-> p[1], arch |-> p[2], home |-> Home] :
        p \in {<<"win32", "x64">>, <<"linux", "ia32">>}}

Platforms == {"win32", "linux", "darwin", "freebsd", "windows"}
Architectures == {"x64", "ia32", "x32", "arm64", "arm", "x86"}

AllHosts ==
    {[platform |-> p, arch |-> a, home |-> Home] :
        p \in Platforms, a \in Architectures}

-----------------------------------------------------------------------------
(* run(), one action per continuation between two awaits *)

\* what no step of a run changes
process == <<actionInputs, input, host, runNo, extracted>>

\* the state of a process that has loaded the module and not yet called run
Loaded(raw) ==
    /\ actionInputs = raw
    /\ input = ReadInput(raw)
    /\ pc = "start"
    /\ versionToInstall = raw.version
    /\ releases = <<>>
    /\ downloadUrl = null
    /\ archivePath = null
    /\ installDir = null
    /\ binaryPath = null
    /\ args = <<>>
    /\ exitCode = "none"
    /\ trace = <<>>
    /\ failures = <<>>
    /\ extractDest = null

Init ==
    /\ \E raw \in RunInputs : Loaded(raw)
    /\ host \in RunHosts
    /\ runNo = 1
    /\ extracted = {}

\* catch (error) { core.setFailed(error.message) }, lines 166-168
catch(calls, message) ==
    /\ trace' = trace \o calls \o <<"setFailed">>
    /\ failures' = Append(failures, message)
    /\ pc' = "done"
    /\ UNCHANGED <<process, downloadUrl, archivePath, installDir, binaryPath,
                   args, extractDest>>

\* an await that rejects: nothing but the catch block runs
setFailed(calls, message) ==
    /\ catch(calls, message)
    /\ UNCHANGED <<versionToInstall, releases, exitCode>>

\* the floor check with the operands of semver.lt exchanged
belowMinimumSwapped(tag) == lt(minimumSupportedVersion, tag)

\* semver.lt(versionToInstall, minimumSupportedVersion), line 125
belowMinimum(tag) == lt(tag, minimumSupportedVersion)

\* install(versionToInstall.replace(/^v/, '')) up to its first await,
\* lines 130 and 89-94
install(calls, tag) ==
    /\ versionToInstall' = tag
    /\ downloadUrl' = buildDownloadUrl(StripV(tag))
    /\ trace' = trace \o calls \o <<"download">>
    /\ pc' = "downloading"
    /\ UNCHANGED <<process, exitCode, archivePath, installDir,
                   binaryPath, args, failures, extractDest>>

\* run() up to await io.which('go', true)
Run ==
    /\ pc = "start"
    /\ pc' = "which"
    /\ trace' = <<"which">>
    /\ UNCHANGED <<process, exitCode, versionToInstall, releases,
                   downloadUrl, archivePath, installDir, binaryPath, args,
                   failures, extractDest>>

\* io.which rejects: Go is not in $PATH
GoMissing ==
    /\ pc = "which"
    /\ setFailed(<<>>, MissingDependencyError)

\* lines 115-117 and 63-65
ResolveLatest ==
    /\ pc = "which"
    /\ toLowerCase(input.version) = latest
    /\ trace' = trace \o <<"warning", "getLatest">>
    /\ pc' = "awaitLatest"
    /\ UNCHANGED <<process, exitCode, versionToInstall, releases,
                   downloadUrl, archivePath, installDir, binaryPath, args,
                   failures, extractDest>>

\* lines 119-121
RejectRange ==
    /\ pc = "which"
    /\ toLowerCase(input.version) # latest
    /\ ~validRange(input.version)
    /\ setFailed(<<"validRange">>, InvalidRangeError)

\* lines 119-123 and 75-77
ResolveRange ==
    /\ pc = "which"
    /\ toLowerCase(input.version) # latest
    /\ validRange(input.version)
    /\ trace' = trace \o <<"validRange", "getAll">>
    /\ pc' = "awaitAll"
    /\ UNCHANGED <<process, exitCode, versionToInstall, releases,
                   downloadUrl, archivePath, installDir, binaryPath, args,
                   failures, extractDest>>

\* lines 66-70: the latest-release request finds nothing, or fails
LatestFails ==
    /\ pc = "awaitLatest"
    /\ \E message \in {NotFoundError, UnexpectedStatusError} :
           setFailed(<<>>, message)

\* a latest path that applies the floor check of the range path
LatestResolvedWithFloor ==
    /\ pc = "awaitLatest"
    /\ \E tag \in Tags :
           IF belowMinimum(tag)
           THEN /\ catch(<<"lt">>, UnsupportedVersionError)
                /\ versionToInstall' = tag
                /\ UNCHANGED exitCode
           ELSE install(<<"lt">>, tag)
    /\ UNCHANGED releases

\* lines 72, 117 and 130: the tag of the latest release goes to install
LatestResolved ==
    /\ pc = "awaitLatest"
    /\ \E tag \in Tags : install(<<>>, tag)
    /\ UNCHANGED releases

\* lines 78-82
ListFails ==
    /\ pc = "awaitAll"
    /\ \E message \in {NotFoundError, UnexpectedStatusError} :
           setFailed(<<>>, message)

\* lines 84-87 and 123-130: the continuation after the release list arrived
ListResolved ==
    /\ pc = "awaitAll"
    /\ \E catalog \in Catalogs :
         LET matched == maxSatisfying(catalog, input.version)
             calls == <<"maxSatisfying", "lt">>
         IN  /\ releases' = catalog
             /\ IF ltThrows(matched, minimumSupportedVersion)
                THEN /\ catch(calls, NoMatchError)
                     /\ versionToInstall' = matched
                     /\ UNCHANGED exitCode
                ELSE IF belowMinimum(matched)
                THEN /\ catch(calls, UnsupportedVersionError)
                     /\ versionToInstall' = matched
                     /\ UNCHANGED exitCode
                ELSE install(calls, matched)

\* line 94 rejects
DownloadFails ==
    /\ pc = "downloading"
    /\ setFailed(<<>>, DownloadError)

\* lines 94-102: the archive arrived and its extraction starts
Extract ==
    /\ pc = "downloading"
    /\ archivePath' = downloadTool(downloadUrl)
    /\ extractDest' = extractInto(downloadTool(downloadUrl), host.home)
    /\ trace' = trace \o <<IF endsWith(downloadUrl, <<".", "zip">>)
                           THEN "extractZip" ELSE "extractTar">>
    /\ pc' = "extracting"
    /\ UNCHANGED <<process, exitCode, versionToInstall, releases,
                   downloadUrl, installDir, binaryPath, args, failures>>

\* line 99 or 101 rejects
ExtractFails ==
    /\ pc = "extracting"
    /\ setFailed(<<>>, ExtractionError)

\* lines 99-104 and 130-159: the archive is extracted, the arguments are
\* assembled and the binary is started
Execute ==
    /\ pc = "extracting"
    /\ installDir' = extractDest
    /\ binaryPath' = joinBinary(extractDest)
    /\ args' = buildArgs(input)
    /\ trace' = trace \o <<"args", "exec">>
    /\ pc' = "executing"
    /\ UNCHANGED <<process, exitCode, versionToInstall, releases,
                   downloadUrl, archivePath, failures, extractDest>>

\* an exec that ignores the exit code of the binary
ExecFailsIgnored ==
    /\ pc = "executing"
    /\ exitCode' = "nonzero"
    /\ trace' = trace
    /\ pc' = "done"
    /\ UNCHANGED <<process, versionToInstall, releases, downloadUrl, archivePath,
                   installDir, binaryPath, args, failures, extractDest>>

\* line 159 rejects: the binary cannot be started or exits non-zero
ExecFails ==
    /\ pc = "executing"
    /\ catch(<<>>, SubprocessError)
    /\ exitCode' \in {"none", "nonzero"}
    /\ UNCHANGED <<versionToInstall, releases>>

\* a read-back that does not look at the output path
readsBackAlways(in) == TRUE

\* the output to read back after the binary has run, line 161
readsBack(in) == in.output # "-"

\* lines 159-163: the binary exited with 0
Executed ==
    /\ pc = "executing"
    /\ exitCode' = "zero"
    /\ IF readsBack(input)
       THEN /\ trace' = trace \o <<"readFile">>
            /\ pc' = "reading"
       ELSE /\ trace' = trace
            /\ pc' = "done"
    /\ UNCHANGED <<process, versionToInstall, releases,
                   downloadUrl, archivePath, installDir, binaryPath, args,
                   failures, extractDest>>

\* line 163 rejects
ReadFails ==
    /\ pc = "reading"
    /\ setFailed(<<>>, ReadError)

\* line 164
LogSbom ==
    /\ pc = "reading"
    /\ trace' = trace \o <<"info">>
    /\ pc' = "done"
    /\ UNCHANGED <<process, exitCode, versionToInstall, releases,
                   downloadUrl, archivePath, installDir, binaryPath, args,
                   failures, extractDest>>

\* the workflow step runs again on the same host: a new process loads the
\* module with new inputs; what earlier runs left on disk stays
NewRun ==
    /\ pc = "done"
    /\ runNo < MaxRuns
    /\ runNo' = runNo + 1
    /\ extracted' = IF extractDest = null THEN extracted
                    ELSE extracted \cup {extractDest}
    /\ \E raw \in RunInputs :
           /\ actionInputs' = raw
           /\ input' = ReadInput(raw)
           /\ versionToInstall' = raw.version
    /\ pc' = "start"
    /\ releases' = <<>>
    /\ downloadUrl' = null
    /\ archivePath' = null
    /\ installDir' = null
    /\ binaryPath' = null
    /\ args' = <<>>
    /\ exitCode' = "none"
    /\ trace' = <<>>
    /\ failures' = <<>>
    /\ extractDest' = null
    /\ UNCHANGED host

Next ==
    \/ Run
    \/ GoMissing
    \/ ResolveLatest
    \/ RejectRange
    \/ ResolveRange
    \/ LatestFails
    \/ LatestResolved
    \/ ListFails
    \/ ListResolved
    \/ DownloadFails
    \/ Extract
    \/ ExtractFails
    \/ Execute
    \/ ExecFails
    \/ Executed
    \/ ReadFails
    \/ LogSbom
    \/ NewRun

Spec == Init /\ [][Next]_vars

-----------------------------------------------------------------------------
(* The argument list and the download URL on their own, over every option  *)
(* and every host                                                         *)

Idle ==
    /\ versionToInstall = null
    /\ releases = <<>>
    /\ downloadUrl = null
    /\ archivePath = null
    /\ installDir = null
    /\ binaryPath = null
    /\ args = <<>>
    /\ exitCode = "none"
    /\ trace = <<>>
    /\ failures = <<>>
    /\ extractDest = null
    /\ runNo = 1
    /\ extracted = {}

InitArgs ==
    /\ actionInputs \in ArgInputs
    /\ input = ReadInput(actionInputs)
    /\ host \in RunHosts
    /\ pc = "options"
    /\ Idle

\* lines 133-157 applied to the input record
AssembleArgs ==
    /\ pc = "options"
    /\ args' = buildArgs(input)
    /\ pc' = "assembled"
    /\ UNCHANGED <<process, versionToInstall, releases, downloadUrl, archivePath,
                   installDir, binaryPath, exitCode, trace, failures,
                   extractDest>>

SpecArgs == InitArgs /\ [][AssembleArgs]_vars

UrlVersions == {<<"1", ".", "2", ".", "3">>, StripV(V081), StripV(V070), RC100}

InitUrl ==
    /\ actionInputs \in {raw \in RunInputs : raw.version = latest /\ raw.output = ""}
    /\ input = ReadInput(actionInputs)
    /\ host \in AllHosts
    /\ pc = "version"
    /\ Idle

\* lines 46-61 applied to a version on this host
BuildUrl ==
    /\ pc = "version"
    /\ \E version \in UrlVersions :
           /\ versionToInstall' = version
           /\ downloadUrl' = buildDownloadUrl(version)
    /\ pc' = "built"
    /\ UNCHANGED <<process, releases, archivePath, installDir, binaryPath, args,
                   exitCode, trace, failures, extractDest>>

SpecUrl == InitUrl /\ [][BuildUrl]_vars

-----------------------------------------------------------------------------
(* Properties *)

InTrace(call) == \E i \in 1..Len(trace) : trace[i] = call

IsLatest == input.version \in LatestWords
IsRange == input.version \in RangeSpecifiers
IsInvalid == input.version \in OtherWords

\* the tags of the release list that satisfy the requested range
Candidates ==
    {releases[i] : i \in {j \in 1..Len(releases) :
                            test(Range(input.version), releases[j])}}

\* C1: on the range path, once the release list has arrived, the resolved tag
\* is a candidate that no candidate exceeds in semantic-version order; when no
\* tag of the list satisfies the range the run has failed with NoMatchError
\* and neither the download nor the binary was started.
C1_MaxSatisfying ==
    (IsRange /\ InTrace("maxSatisfying")) =>
        IF Candidates = {}
        THEN /\ versionToInstall = null
             /\ failures = <<NoMatchError>>
             /\ pc = "done"
             /\ ~InTrace("download")
             /\ ~InTrace("exec")
        ELSE /\ versionToInstall \in Candidates
             /\ \A tag \in Candidates :
                    compare(SemVer(tag), SemVer(versionToInstall)) <= 0

C1_Witness ==
    /\ input.version = <<"^", "0", ".", "8", ".", "0">>
    /\ releases = <<V080, V081, V090>>
    /\ versionToInstall = V081
    /\ pc = "downloading"

\* C2 as stated: for every specifier, install is never started with a tag
\* below the minimum supported version.
C2_FloorForEverySpecifier ==
    InTrace("download") => ~lt(versionToInstall, minimumSupportedVersion)

\* C2: on the range path, a resolved tag strictly below the minimum supported
\* version makes the run fail with UnsupportedVersionError, and install is
\* never started with such a tag.
C2_FloorOnRangePath ==
    (IsRange /\ InTrace("maxSatisfying") /\ versionToInstall # null) =>
        IF lt(versionToInstall, minimumSupportedVersion)
        THEN /\ failures = <<UnsupportedVersionError>>
             /\ pc = "done"
             /\ ~InTrace("download")
        ELSE /\ InTrace("download")
             /\ UnsupportedVersionError \notin {failures[i] : i \in 1..Len(failures)}

C2_Witness ==
    /\ IsRange
    /\ releases = <<V070>>
    /\ versionToInstall = V070
    /\ failures = <<UnsupportedVersionError>>

\* C3: with the specifier 'latest' and v0.7.0 reported as the latest release,
\* the resolved tag is v0.7.0, install is started with version 0.7.0 and the
\* run never fails as unsupported; the floor check is made on the range path
\* only.
C3_LatestSkipsFloor ==
    /\ (IsLatest /\ versionToInstall = V070) =>
           /\ InTrace("download")
           /\ SubSeq(downloadUrl, 1, 8) =
                  <<baseDownloadUrl, "/v", "0", ".", "7", ".", "0",
                    "/cyclonedx-gomod_">>
           /\ UnsupportedVersionError \notin {failures[i] : i \in 1..Len(failures)}
    /\ InTrace("lt") => IsRange

C3_Witness ==
    /\ input.version = latest
    /\ versionToInstall = V070
    /\ pc = "executing"

\* C4 as stated: a run whose specifier is neither 'latest' nor a valid range
\* ends with the invalid-range error.
C4_AlwaysInvalidRangeError ==
    (IsInvalid /\ pc = "done") => failures = <<InvalidRangeError>>

\* C4: a run whose specifier is neither 'latest' nor a valid range makes no
\* request to the release index and starts no download, extraction or
\* execution; once Go was found it ends with the invalid-range error as its
\* only failure, and without Go it ends with the missing-dependency error.
C4_InvalidRangeTerminal ==
    IsInvalid =>
        /\ ~InTrace("getLatest") /\ ~InTrace("getAll")
        /\ ~InTrace("download")
        /\ ~InTrace("extractZip") /\ ~InTrace("extractTar")
        /\ ~InTrace("exec")
        /\ pc \in {"start", "which", "done"}
        /\ pc = "done" =>
               IF InTrace("validRange")
               THEN failures = <<InvalidRangeError>>
               ELSE failures = <<MissingDependencyError>>

C4_Witness ==
    /\ IsInvalid
    /\ pc = "done"
    /\ failures = <<InvalidRangeError>>

\* C5: with the specifier 'latest' in any letter case the run asks for the
\* latest release as soon as Go was found, and never asks for the release
\* list, never validates or matches a range, and never fails with the
\* invalid-range error.
C5_LatestOnly ==
    IsLatest =>
        /\ ~InTrace("getAll")
        /\ ~InTrace("validRange")
        /\ ~InTrace("maxSatisfying")
        /\ InvalidRangeError \notin {failures[i] : i \in 1..Len(failures)}
        /\ (pc \notin {"start", "which"} /\ failures # <<MissingDependencyError>>)
               => InTrace("getLatest")

C5_Witness ==
    /\ input.version = <<"L", "A", "T", "E", "S", "T">>
    /\ InTrace("getLatest")
    /\ pc = "downloading"

\* the stage of a run a call belongs to; the failure report comes last
Stage(call) ==
    CASE call = "which" -> 1
      [] call \in {"warning", "validRange", "getLatest", "getAll",
                   "maxSatisfying", "lt"} -> 2
      [] call = "download" -> 3
      [] call \in {"extractZip", "extractTar"} -> 4
      [] call = "args" -> 5
      [] call = "exec" -> 6
      [] call \in {"readFile", "info"} -> 7
      [] call = "setFailed" -> 8

StagesStarted == {Stage(trace[i]) : i \in 1..Len(trace)}

\* the try block ran to its end
Succeeded ==
    /\ pc = "done"
    /\ exitCode = "zero"
    /\ actionInputs.output \notin {"", "-"} => InTrace("info")

\* C6: the stages run in their order and each at most once; a stage is
\* started only when the one before it was; the failure report ends the run,
\* nothing is started after it; a finished run that failed has reported
\* exactly one failure and a finished run that succeeded has reported none.
C6_StagesInOrder ==
    /\ \A i, j \in 1..Len(trace) :
           i < j => (Stage(trace[i]) <= Stage(trace[j]) /\ trace[i] # trace[j])
    /\ \A k \in StagesStarted : k \in 2..7 => (k - 1) \in StagesStarted
    /\ \A i \in 1..Len(trace) :
           trace[i] = "setFailed" => (i = Len(trace) /\ pc = "done")
    /\ Len(failures) = Cardinality({i \in 1..Len(trace) : trace[i] = "setFailed"})
    /\ pc = "done" => IF Succeeded THEN failures = <<>> ELSE Len(failures) = 1

C6_Witness ==
    /\ pc = "done"
    /\ trace = <<"which", "validRange", "getAll", "maxSatisfying", "lt",
                 "download", "extractTar", "args", "exec", "setFailed">>
    /\ failures = <<SubprocessError>>

\* the last five tokens of a download URL: platform, "_", architecture, ".",
\* extension
UrlPlatform == downloadUrl[Len(downloadUrl) - 4]
UrlArchitecture == downloadUrl[Len(downloadUrl) - 2]
UrlExtension == downloadUrl[Len(downloadUrl)]

\* C7: for every platform and architecture a URL is built; 'win32' gives
\* 'windows' and 'zip', every other platform is kept and gives 'tar.gz';
\* 'ia32' and 'x32' give 'x86', every other architecture is kept; win32, x64
\* and version 1.2.3 give a URL that ends in '_windows_x64.zip'.
C7_ArchiveNaming ==
    pc = "built" =>
        /\ downloadUrl # null
        /\ IF host.platform = "win32"
           THEN UrlPlatform = "windows" /\ UrlExtension = "zip"
           ELSE UrlPlatform = host.platform /\ UrlExtension = "tar.gz"
        /\ IF host.arch \in {"ia32", "x32"}
           THEN UrlArchitecture = "x86"
           ELSE UrlArchitecture = host.arch
        /\ (host.platform = "win32" /\ host.arch = "x64"
               /\ versionToInstall = <<"1", ".", "2", ".", "3">>)
           => endsWith(downloadUrl, <<"/cyclonedx-gomod_", "1", ".", "2", ".", "3",
                                      "_", "windows", "_", "x64", ".", "zip">>)

C7_Witness ==
    /\ pc = "built"
    /\ host.platform = "win32"
    /\ host.arch = "x64"
    /\ versionToInstall = <<"1", ".", "2", ".", "3">>
    /\ endsWith(downloadUrl, <<"_", "windows", "_", "x64", ".", "zip">>)

\* the flag of every boolean option, in the order of the claim
FlagTokens == <<"-std", "-test", "-json", "-noserial", "-novprefix",
                "-reproducible", "-licenses">>

FlagOption(token) ==
    CASE token = "-std" -> "includeStdLib"
      [] token = "-test" -> "includeTest"
      [] token = "-json" -> "json"
      [] token = "-noserial" -> "omitSerialNumber"
      [] token = "-novprefix" -> "omitVersionPrefix"
      [] token = "-reproducible" -> "reproducible"
      [] token = "-licenses" -> "resolveLicenses"

FlagGiven(token) == actionInputs.flags[FlagOption(token)]

NotOfModule(token) == token \notin {"-module", actionInputs.module}

IsDefaultCall ==
    /\ pc = "assembled"
    /\ actionInputs.flags = AllOff
    /\ actionInputs.module = ""
    /\ input.output = "-"
    /\ input.type = "application"

\* C8 as stated: with every boolean off, no module, output '-' and type
\* 'application' the argument list has two tokens.
C8_DefaultCallHasTwoTokens == IsDefaultCall => Len(args) = 2

\* C8: the argument list starts with the output pair and the type pair; after
\* them come, in the fixed order, the flag of each boolean option that is on,
\* and the pair of the module flag and the module exactly when the module is
\* not empty; with every boolean off, no module, output '-' and type
\* 'application' the list is the four tokens -output - -type application.
C8_Arguments ==
    pc = "assembled" =>
        LET rest == SubSeq(args, 5, Len(args))
            modulePairs == {i \in 1..(Len(rest) - 1) :
                               rest[i] = "-module" /\ rest[i + 1] = actionInputs.module}
        IN  /\ Len(args) >= 4
            /\ SubSeq(args, 1, 4) = <<"-output", input.output, "-type", input.type>>
            /\ SelectSeq(rest, NotOfModule) = SelectSeq(FlagTokens, FlagGiven)
            /\ IF actionInputs.module = ""
               THEN \A i \in 1..Len(rest) : rest[i] # "-module"
               ELSE /\ Cardinality(modulePairs) = 1
                    /\ Len(rest) = Len(SelectSeq(rest, NotOfModule)) + 2
            /\ IsDefaultCall => args = <<"-output", "-", "-type", "application">>

C8_Witness ==
    /\ IsDefaultCall
    /\ actionInputs.output = ""
    /\ actionInputs.type = ""
    /\ Len(args) = 4

C10_ReadBack ==
    /\ InTrace("readFile") <=>
           (actionInputs.output \notin {"", "-"} /\ exitCode = "zero")
    /\ InTrace("info") => InTrace("readFile")
    /\ (pc = "done" /\ InTrace("readFile") /\ failures = <<>>) => InTrace("info")

C10_Witness ==
    /\ actionInputs.output = "bom.xml"
    /\ exitCode = "zero"
    /\ InTrace("info")
    /\ pc = "done"

====
